---- MODULE Spec2Model ----
(***************************************************************************)
(* MorganFingerprint (src/MorganFingerprint/morgan.py): bounded path       *)
(* enumeration (_bfs), orientation-independent fragments (_fragments),     *)
(* hashing and folding into bit positions (transform_bitset) and the dense *)
(* matrix (transform).                                                     *)
(***************************************************************************)
EXTENDS Integers, Sequences, FiniteSets, TLC

\* ------------------------------------------------------------- bounds
MaxRadius == 5        \* radius is drawn from 0..MaxRadius
MaxLog == 2           \* length is drawn from 0, 2^MaxLog - 1 and 2^e, e \in 0..MaxLog
MaxActiveBits == 2    \* number_active_bits is drawn from 0..MaxActiveBits
MaxBatch == 2         \* a batch holds at most MaxBatch graphs
HashBits == 4         \* tuple_hash values are HashBits wide

\* ------------------------------------------------------------- helpers
RECURSIVE Pow2(_)
Pow2(n) == IF n <= 0 THEN 1 ELSE 2 * Pow2(n - 1)

Reverse(s) == [k \in 1..Len(s) |-> s[Len(s) + 1 - k]]

ToSet(s) == {s[k] : k \in 1..Len(s)}

Last(s) == s[Len(s)]

\* ------------------------------------------------------------- graphs
\* A MoleculeContainer as _bfs and _fragments read it: _atoms (node ids in
\* insertion order, 1..Len(num)), int(atom) per node (num), _bonds[n] as the
\* neighbours of n in insertion order (adj) and int(_bonds[n][m]) (ord).
\* _bonds is symmetric: m is in _bonds[n] iff n is in _bonds[m], same bond.
Graphs ==
  << \* the chain O=C=O: equal end labels, equal bonds
     [num |-> <<8, 6, 8>>,
      adj |-> << <<2>>, <<1, 3>>, <<2>> >>,
      ord |-> << <<0, 2, 0>>, <<2, 0, 2>>, <<0, 2, 0>> >>],
     \* a three-membered ring C-N-O with one double bond, and a lone Na
     [num |-> <<6, 7, 8, 11>>,
      adj |-> << <<2, 3>>, <<1, 3>>, <<1, 2>>, <<>> >>,
      ord |-> << <<0, 1, 1, 0>>, <<1, 0, 2, 0>>, <<1, 2, 0, 0>>, <<0, 0, 0, 0>> >>],
     \* the chain C-C=N-O
     [num |-> <<6, 6, 7, 8>>,
      adj |-> << <<2>>, <<1, 3>>, <<2, 4>>, <<3>> >>,
      ord |-> << <<0, 1, 0, 0>>, <<1, 0, 2, 0>>, <<0, 2, 0, 1>>, <<0, 0, 1, 0>> >>]
  >>

GraphIds == DOMAIN Graphs

Nodes(g) == DOMAIN g.num

RECURSIVE SeqsUpTo(_, _)
SeqsUpTo(S, n) ==
  IF n = 0 THEN {<<>>}
  ELSE LET shorter == SeqsUpTo(S, n - 1)
       IN shorter \cup {Append(s, e) : s \in {t \in shorter : Len(t) = n - 1}, e \in S}

Batches == SeqsUpTo(GraphIds, MaxBatch)

Radii == 0..MaxRadius
Lengths == {0, Pow2(MaxLog) - 1} \cup {Pow2(e) : e \in 0..MaxLog}
ActiveBitCounts == 0..MaxActiveBits

VARIABLES
  pc,            \* position of the caller / of the running method
  radius,        \* self._radius
  mask,          \* self._mask
  length,        \* self._length
  log,           \* self._log
  nab,           \* self._number_active_bits
  x,             \* the batch handed to transform / transform_bitset
  i,             \* index in x of the molecule being processed
  arr,           \* _bfs: arr, then _fragments' argument
  queue,         \* _bfs: queue
  fidx,          \* _fragments: number of frags of arr already processed
  cache,         \* _fragments: cache
  out,           \* _fragments: out
  added,         \* _fragments: the tuple added to out for each processed frag
  hashes,        \* transform_bitset: hashes of the current molecule
  active_bits,   \* transform_bitset: active_bits
  fingerprints   \* transform: the returned matrix (<<>> until it returns)

vars == <<pc, radius, mask, length, log, nab, x, i, arr, queue, fidx,
          cache, out, added, hashes, active_bits, fingerprints>>

cfgVars == <<radius, mask, length, log, nab>>
bfsVars == <<arr, queue>>
fragVars == <<fidx, cache, out, added>>

EmptyCache == [p \in {} |-> 0]

Init ==
  /\ pc = "new"
  /\ radius = 0 /\ mask = 0 /\ length = 0 /\ log = 0 /\ nab = 0
  /\ x = <<>> /\ i = 0
  /\ arr = <<>> /\ queue = <<>>
  /\ fidx = 0 /\ cache = EmptyCache /\ out = {} /\ added = <<>>
  /\ hashes = {} /\ active_bits = <<>> /\ fingerprints = <<>>

\* ------------------------------------------------------------- __init__
\* int(log2(n)) for n >= 1
RECURSIVE Log2Floor(_)
Log2Floor(n) == IF n <= 1 THEN 0 ELSE 1 + Log2Floor(n \div 2)

\* math.log2 raises ValueError (math domain error) for length <= 0
Log2Raises(len) == len <= 0

ConstructOk ==
  /\ pc = "new"
  /\ \E r \in Radii, len \in Lengths, k \in ActiveBitCounts :
       /\ ~Log2Raises(len)
       /\ radius' = r
       /\ mask' = len - 1
       /\ length' = len
       /\ log' = Log2Floor(len)
       /\ nab' = k
  /\ pc' = "ready"
  /\ UNCHANGED <<x, i, bfsVars, fragVars, hashes, active_bits, fingerprints>>

ConstructRaises ==
  /\ pc = "new"
  /\ \E r \in Radii, len \in Lengths, k \in ActiveBitCounts :
       /\ Log2Raises(len)
       /\ radius' = r
       /\ mask' = len - 1
       /\ length' = len
       /\ nab' = k
  /\ pc' = "ctor_error"
  /\ UNCHANGED <<log, x, i, bfsVars, fragVars, hashes, active_bits, fingerprints>>

\* ------------------------------------------------------------- transform_bitset
\* the caller hands a batch to transform or transform_bitset
Call ==
  /\ pc = "ready"
  /\ \E b \in Batches : x' = b
  /\ i' = 1
  /\ active_bits' = <<>>
  /\ pc' = "mol"
  /\ UNCHANGED <<cfgVars, bfsVars, fragVars, hashes, fingerprints>>

Mol == Graphs[x[i]]

\* ------------------------------------------------------------- _bfs
NotIn(n, now) == \A k \in 1..Len(now) : now[k] # n

\* Extensions without the `if x not in now` filter
ExtensionsRevisiting(g, now) ==
  [k \in 1..Len(g.adj[Last(now)]) |-> Append(now, g.adj[Last(now)][k])]

\* [now + [x] for x in bonds[now[-1]] if x not in now]
Extensions(g, now) ==
  LET nb == SelectSeq(g.adj[Last(now)], LAMBDA n : NotIn(n, now))
  IN [k \in 1..Len(nb) |-> Append(now, nb[k])]

\* not var or len(var[0]) >= self._radius - 1
StopsGrowing(var, r) == var = <<>> \/ Len(var[1]) >= r - 1

BfsStart ==
  /\ pc = "mol"
  /\ i <= Len(x)
  /\ arr' = [n \in Nodes(Mol) |-> <<n>>]
  /\ queue' = arr'
  /\ pc' = "bfs"
  /\ UNCHANGED <<cfgVars, x, i, fragVars, hashes, active_bits, fingerprints>>

BfsStep ==
  /\ pc = "bfs"
  /\ queue # <<>>
  /\ LET now == Head(queue)
         var == Extensions(Mol, now)
     IN IF StopsGrowing(var, radius)
        THEN /\ queue' = Tail(queue)
             /\ arr' = arr
        ELSE /\ arr' = arr \o var
             /\ queue' = Tail(queue) \o var
  /\ UNCHANGED <<pc, cfgVars, x, i, fragVars, hashes, active_bits, fingerprints>>

BfsReturn ==
  /\ pc = "bfs"
  /\ queue = <<>>
  /\ fidx' = 0
  /\ cache' = EmptyCache
  /\ out' = {}
  /\ added' = <<>>
  /\ pc' = "fragments"
  /\ UNCHANGED <<cfgVars, x, i, bfsVars, hashes, active_bits, fingerprints>>

\* ------------------------------------------------------------- _fragments
\* cache[x].get(y): the cached bond, or a falsy value (None) on a miss. The
\* code only tests the result with `not b`, so None and 0 are one value here.
CacheGet(c, a, b) == IF <<a, b>> \in DOMAIN c THEN c[<<a, b>>] ELSE 0

\* cache[x][y] = cache[y][x] = v
CachePut(c, a, b, v) ==
  [p \in DOMAIN c \cup {<<a, b>>, <<b, a>>} |->
     IF p \in {<<a, b>>, <<b, a>>} THEN v ELSE c[p]]

\* the loop `for x, y in zip(frag, frag[1:])` from pair k on: the tuple built
\* and the cache it leaves
RECURSIVE Walk(_, _, _, _, _)
Walk(g, frag, k, var, c) ==
  IF k >= Len(frag) THEN [var |-> var, cache |-> c]
  ELSE LET a == frag[k]
           b == frag[k + 1]
           got == CacheGet(c, a, b)
           bond == IF got = 0 THEN g.ord[a][b] ELSE got
           c2 == IF got = 0 THEN CachePut(c, a, b, bond) ELSE c
       IN Walk(g, frag, k + 1, var \o <<bond, g.num[b]>>, c2)

\* Python's tuple comparison s > t
RECURSIVE TupleGreater(_, _)
TupleGreater(s, t) ==
  IF s = <<>> THEN FALSE
  ELSE IF t = <<>> THEN TRUE
  ELSE IF Head(s) # Head(t) THEN Head(s) > Head(t)
  ELSE TupleGreater(Tail(s), Tail(t))

\* Oriented without the comparison: the tuple as it was built
OrientedAsBuilt(var) == var

\* if var > rev_var: out.add(var) else: out.add(rev_var)
Oriented(var) == IF TupleGreater(var, Reverse(var)) THEN var ELSE Reverse(var)

FragStep ==
  /\ pc = "fragments"
  /\ fidx < Len(arr)
  /\ LET frag == arr[fidx + 1]
         w == Walk(Mol, frag, 1, <<Mol.num[frag[1]]>>, cache)
     IN /\ cache' = w.cache
        /\ out' = out \cup {Oriented(w.var)}
        /\ added' = Append(added, Oriented(w.var))
  /\ fidx' = fidx + 1
  /\ UNCHANGED <<pc, cfgVars, x, i, bfsVars, hashes, active_bits, fingerprints>>

\* ------------------------------------------------------------- hashing and folding
HashMod == Pow2(HashBits)

\* tuple_hash is imported from CGRtools: a deterministic, order-sensitive hash
\* of a tuple of ints with a non-negative fixed-width value (64 bits there,
\* HashBits here), folding the elements left to right.
RECURSIVE TupleHashFrom(_, _)
TupleHashFrom(acc, t) ==
  IF t = <<>> THEN acc
  ELSE TupleHashFrom((acc * 5 + Head(t) * 3 + 1) % HashMod, Tail(t))

TupleHash(t) == TupleHashFrom((7 + Len(t)) % HashMod, t)

\* Python's a & b on unbounded two's-complement integers
RECURSIVE BitAnd(_, _)
BitAnd(a, b) ==
  IF a = 0 \/ b = 0 THEN 0
  ELSE IF a = -1 THEN b
  ELSE IF b = -1 THEN a
  ELSE (a % 2) * (b % 2) + 2 * BitAnd(a \div 2, b \div 2)

\* Python's a >> n
ShiftRight(a, n) == a \div Pow2(n)

\* FoldMask folding with self._mask itself
FoldMaskFull(m) == m

\* the mask transform_bitset folds with: self._mask - 1
FoldMask(m) == m - 1

\* ShiftIndexes keeping only the last shift
ShiftIndexesLastOnly(k) == IF k <= 0 THEN <<>> ELSE <<k - 1>>

\* range(self._number_active_bits)
ShiftIndexes(k) == [j \in 1..k |-> j - 1]

\* tpl >> (self._log * x) & (self._mask - 1)
BitOf(tpl, sh, lg, m) == BitAnd(ShiftRight(tpl, lg * sh), FoldMask(m))

\* [... for x in range(number_active_bits) for tpl in hashes], hs being the
\* order in which the set hashes is iterated
BitList(hs, k, lg, m) ==
  LET shifts == ShiftIndexes(k)
      n == Len(hs)
  IN [j \in 1..(Len(shifts) * n) |->
        BitOf(hs[((j - 1) % n) + 1], shifts[((j - 1) \div n) + 1], lg, m)]

RECURSIVE Ascending(_)
Ascending(S) ==
  IF S = {} THEN <<>>
  ELSE LET lo == CHOOSE e \in S : \A o \in S : e <= o
       IN <<lo>> \o Ascending(S \ {lo})

\* the iteration order of a set of ints is not fixed by the language: the model
\* draws it from the ascending and the descending order
IterationOrders(S) == {Ascending(S), Reverse(Ascending(S))}

HashesOf(frags) == {TupleHash(t) : t \in frags}

\* _fragments returns; lines 62-68 hash the fragments and append the bit list
FragReturn ==
  /\ pc = "fragments"
  /\ fidx = Len(arr)
  /\ hashes' = HashesOf(out)
  /\ \E hs \in IterationOrders(hashes') :
       active_bits' = Append(active_bits, BitList(hs, nab, log, mask))
  /\ i' = i + 1
  /\ pc' = "mol"
  /\ UNCHANGED <<cfgVars, x, bfsVars, fragVars, fingerprints>>

\* the loop over x is exhausted: transform_bitset returns active_bits
BitsetReturn ==
  /\ pc = "mol"
  /\ i > Len(x)
  /\ pc' = "bitset_returned"
  /\ UNCHANGED <<cfgVars, x, i, bfsVars, fragVars, hashes, active_bits, fingerprints>>

\* ------------------------------------------------------------- transform
\* numpy accepts an index b of a row of len columns iff -len <= b < len
IndexOk(b, len) == -len <= b /\ b < len

\* the column a valid index b names (negative indexes count from the end)
Column(b, len) == IF b < 0 THEN b + len ELSE b

AllIndexesOk(bits, len) ==
  \A r \in 1..Len(bits) : \A k \in 1..Len(bits[r]) : IndexOk(bits[r][k], len)

\* zeros((len(x), length)) with fingerprint[bit] = 1 for every bit of every list
Dense(bits, n, len) ==
  [r \in 1..n |->
     [c \in 0..(len - 1) |->
        IF \E k \in 1..Len(bits[r]) : Column(bits[r][k], len) = c THEN 1 ELSE 0]]

\* transform, after its call of transform_bitset returned: lines 49-56
TransformReturn ==
  /\ pc = "bitset_returned"
  /\ AllIndexesOk(active_bits, length)
  /\ fingerprints' = Dense(active_bits, Len(x), length)
  /\ pc' = "done"
  /\ UNCHANGED <<cfgVars, x, i, bfsVars, fragVars, hashes, active_bits>>

\* fingerprint[bit] = 1 raises IndexError: transform returns nothing
TransformRaises ==
  /\ pc = "bitset_returned"
  /\ ~AllIndexesOk(active_bits, length)
  /\ pc' = "index_error"
  /\ UNCHANGED <<cfgVars, x, i, bfsVars, fragVars, hashes, active_bits, fingerprints>>

Next ==
  \/ ConstructOk
  \/ ConstructRaises
  \/ Call
  \/ BfsStart
  \/ BfsStep
  \/ BfsReturn
  \/ FragStep
  \/ FragReturn
  \/ BitsetReturn
  \/ TransformReturn
  \/ TransformRaises

Spec == Init /\ [][Next]_vars

\* ============================================================= claims
IsPowerOfTwo(n) == n >= 1 /\ Pow2(Log2Floor(n)) = n

NoDuplicates(s) == \A j, k \in 1..Len(s) : j # k => s[j] # s[k]

Adjacent(g, a, b) == \E k \in 1..Len(g.adj[a]) : g.adj[a][k] = b

\* a Path of the data model: non-empty, simple, along edges
IsSimplePath(g, p) ==
  /\ Len(p) >= 1
  /\ NoDuplicates(p)
  /\ \A k \in 1..(Len(p) - 1) : Adjacent(g, p[k], p[k + 1])

Min(a, b) == IF a < b THEN a ELSE b

\* every simple path of g with 1..r nodes
SimplePaths(g, r) ==
  {p \in SeqsUpTo(Nodes(g), Min(r, Cardinality(Nodes(g)))) : IsSimplePath(g, p)}

\* a configuration section 6 of the specification allows
ValidConfig == IsPowerOfTwo(length) /\ radius >= 1 /\ nab >= 1

\* _bfs has returned for the current molecule: arr is its result
BfsReturned == pc = "fragments"

\* transform_bitset has appended the bit list of molecule i - 1
BitsAppended == pc = "mol" /\ i > 1

AllBits == UNION {ToSet(active_bits[r]) : r \in 1..Len(active_bits)}

\* C1: for radius R >= 1 the list _bfs returns holds every simple path of the
\* graph with 1..R nodes, each exactly once.
C1_EnumerationComplete ==
  (BfsReturned /\ ValidConfig) =>
     /\ ToSet(arr) = SimplePaths(Mol, radius)
     /\ NoDuplicates(arr)

\* C2: for radius R >= 1, at every step of the _bfs loop and in its result,
\* every path in queue or arr has 1..R nodes, repeats no node and follows edges.
C2_PathInvariant ==
  (pc \in {"bfs", "fragments"} /\ radius >= 1) =>
     \A p \in ToSet(arr) \cup ToSet(queue) :
        IsSimplePath(Mol, p) /\ Len(p) <= radius

\* C2 witness: inside the loop on the ring, a 3-node path is queued
C2_Witness ==
  /\ pc = "bfs"
  /\ x[i] = 2
  /\ \E k \in 1..Len(queue) : Len(queue[k]) = 3

\* the interleaved label sequence of a path, read off the graph
Interleaved(g, p) ==
  [k \in 1..(2 * Len(p) - 1) |->
     IF k % 2 = 1 THEN g.num[p[(k + 1) \div 2]]
     ELSE g.ord[p[k \div 2]][p[k \div 2 + 1]]]

\* s <= t in the lexicographic order of equally long integer sequences
LexLeq(s, t) ==
  \/ s = t
  \/ \E k \in 1..Len(s) : s[k] < t[k] /\ \A j \in 1..(k - 1) : s[j] = t[j]

\* C3: the fragment _fragments builds for a path equals the one it builds for
\* the reversed path, and is the lexicographically greater-or-equal of the
\* interleaved label sequence and its reversal, whatever the cache holds.
C3_OrientationInvariance ==
  pc = "fragments" =>
     /\ \A j \in 1..fidx :
          LET seq == Interleaved(Mol, arr[j])
          IN /\ added[j] \in {seq, Reverse(seq)}
             /\ LexLeq(seq, added[j])
             /\ LexLeq(Reverse(seq), added[j])
     /\ \A j, k \in 1..fidx : arr[j] = Reverse(arr[k]) => added[j] = added[k]

\* C3 witness: a 3-node path with an asymmetric label sequence and its
\* reversal have both been processed, the later one from a filled cache
C3_Witness ==
  /\ pc = "fragments"
  /\ \E j, k \in 1..fidx :
       /\ j < k
       /\ Len(arr[j]) = 3
       /\ arr[j] = Reverse(arr[k])
       /\ Interleaved(Mol, arr[j]) # Reverse(Interleaved(Mol, arr[j]))
       /\ added[j] = added[k]
       /\ <<arr[k][1], arr[k][2]>> \in DOMAIN cache

\* C4: for length L a positive power of two and K >= 1, every bit position
\* transform_bitset derives lies in [0, L).
C4_BitsInRange ==
  ValidConfig =>
     \A b \in AllBits : 0 <= b /\ b < length

\* C5: no fingerprinter exists for a length that is not a positive power of
\* two, a radius < 1 or a number_active_bits < 1: construction raised.
C5_ConfigFailsFast ==
  pc \notin {"new", "ctor_error"} => ValidConfig

\* C6: for every batch and configuration transform returns a matrix with one
\* row per graph, and row r has a 1 in column b iff b is in the r-th list of
\* transform_bitset.
C6_DenseSparseAgree ==
  (ValidConfig /\ pc \in {"done", "index_error"}) =>
     /\ pc = "done"
     /\ Len(fingerprints) = Len(x)
     /\ Len(active_bits) = Len(x)
     /\ \A r \in 1..Len(x) : \A b \in 0..(length - 1) :
          fingerprints[r][b] = 1 <=> b \in ToSet(active_bits[r])

\* C7: no list of transform_bitset holds an index more than once.
C7_SparseIsSet ==
  (ValidConfig /\ length >= 2) =>
     \A r \in 1..Len(active_bits) : NoDuplicates(active_bits[r])

\* C8: for the symmetric 3-node chain and radius = 3 the fragment set holds
\* exactly 3 fragments: the two singletons and the canonical 3-node path.
C8_SymmetricChain ==
  (ValidConfig /\ pc = "fragments" /\ fidx = Len(arr) /\ x[i] = 1 /\ radius = 3) =>
     /\ Cardinality(out) = 3
     /\ out = {<<8>>, <<6>>, <<8, 2, 6, 2, 8>>}

BitsFor(k) == ToSet(BitList(Ascending(hashes), k, log, mask))

\* C9: for k >= 1 the set of bit positions produced with number_active_bits = k
\* is a subset of the set produced with k + 1, so the bit count never decreases.
C9_MonotonicBits ==
  (BitsAppended /\ nab >= 1) =>
     /\ ToSet(active_bits[i - 1]) = BitsFor(nab)
     /\ BitsFor(nab) \subseteq BitsFor(nab + 1)
     /\ Cardinality(BitsFor(nab)) <= Cardinality(BitsFor(nab + 1))
     /\ (nab >= 2 => BitsFor(nab - 1) \subseteq ToSet(active_bits[i - 1]))

\* C9 witness: one more active bit per hash sets a position that was not set
C9_Witness ==
  /\ BitsAppended
  /\ nab = 1
  /\ ToSet(active_bits[i - 1]) # {}
  /\ BitsFor(2) # ToSet(active_bits[i - 1])

\* C10: for a power-of-two length L >= 2 every bit index is even and at most
\* L - 2, and no odd column of the matrix transform returns is 1.
C10_OnlyEvenBits ==
  (IsPowerOfTwo(length) /\ length >= 2) =>
     /\ \A b \in AllBits : b % 2 = 0 /\ 0 <= b /\ b <= length - 2
     /\ pc = "done" =>
          \A r \in 1..Len(fingerprints) : \A c \in 0..(length - 1) :
             c % 2 = 1 => fingerprints[r][c] = 0

\* C10 witness: transform returned for L = 4 with an odd hash folded and a
\* non-zero position set
C10_Witness ==
  /\ pc = "done"
  /\ length = 4
  /\ nab >= 1
  /\ \E h \in hashes : h % 2 = 1
  /\ \E r \in 1..Len(fingerprints) : fingerprints[r][2] = 1
====
